---- MODULE Spec2Model ----
(***************************************************************************)
(* Model of the UMA photo validator (src/photo/validator_api.py): the      *)
(* passport crop, the border whiteness classifier, the quality search of   *)
(* the JPEG encoder, run_pipeline and the /validate and /fix-photo         *)
(* handlers.                                                               *)
(*                                                                         *)
(* Float arithmetic of the source is modelled by integer arithmetic that   *)
(* gives the same results; each identity below was compared with CPython   *)
(* doubles for every integer argument in 1..200000:                        *)
(*   int(h * 0.9)            = (9 * h) \div 10                             *)
(*   int(n * (240 / 288))    = (240 * n) \div 288                          *)
(*   int(n / (240 / 288))    = (288 * n) \div 240                          *)
(*   h > 288 * 1.2           = 10 * h > 12 * 288                           *)
(***************************************************************************)
EXTENDS Integers, Sequences, FiniteSets, TLC

VARIABLES
    endpoint,       \* "validate", "fix_photo", or the function under study
    pc,             \* position inside the handler / function
    decodable,      \* does Image.open accept the uploaded bytes
    pil_img,        \* the decoded raster: [w, h, f, outer, inner]
    original_size,  \* len(raw_bytes)
    enc,            \* how the JPEG encoder sizes the resized image: [a, b, t]
    limit,          \* byte limit handed to jpg_under_size
    white_ratio,    \* <<numerator, denominator>> of the white fraction
    background_ok,
    window,         \* crop box [left, top, right, bottom]
    out_img,        \* size of the resized raster
    jpg,            \* the encoding: [q, size]
    issues,         \* sequence of issue tags
    ok,
    saved,          \* sequence of local file writes
    uploaded,       \* sequence of upload attempts
    response,
    trace           \* sequence of the steps taken so far

vars == <<endpoint, pc, decodable, pil_img, original_size, enc, limit,
          white_ratio, background_ok, window, out_img, jpg, issues, ok,
          saved, uploaded, response, trace>>

None == "none"

\* ---------------- Config ----------------
TARGET_W == 240
TARGET_H == 288
MAX_BYTES == 51200
MAX_ORIGINAL_BYTES == MAX_BYTES
BORDER_PIXELS == 12
WHITE_THRESHOLD == 220
\* BACKGROUND_MIN_WHITE = 0.56 as the fraction 56 / 100
BACKGROUND_MIN_WHITE_NUM == 56
BACKGROUND_MIN_WHITE_DEN == 100
QUALITY_LO == 35
QUALITY_HI == 95

\* ---------------- Bounds ----------------
MaxW == 300
MaxH == 350
MaxSize == 3
MaxBgDim == 16
MaxFrame == 3
SizeSpread == 1

Max(a, b) == IF a >= b THEN a ELSE b
Min(a, b) == IF a <= b THEN a ELSE b

\* ---------------- passport_crop ----------------
AlwaysZoomTenths(h) == 9

\* crop_factor in tenths: 0.9 if h > TARGET_H * 1.2 else 1.0
crop_factor_tenths(h) == IF 10 * h > 12 * TARGET_H THEN 9 ELSE 10

InvertedFallbackHeight(w) == (w * TARGET_W) \div TARGET_H

\* new_h = int(new_w / target_ratio) of the width-limited fallback
fallback_height(w) == (w * TARGET_H) \div TARGET_W

\* left = max(0, (w - new_w) // 2)
crop_left(w, new_w) == Max(0, (w - new_w) \div 2)

passport_crop(w, h) ==
    LET new_h0 == Max((h * crop_factor_tenths(h)) \div 10, TARGET_H)
        new_w0 == (new_h0 * TARGET_W) \div TARGET_H
        new_w  == IF new_w0 > w THEN w ELSE new_w0
        new_h  == IF new_w0 > w THEN fallback_height(w) ELSE new_h0
        left   == crop_left(w, new_w)
        max_top == h - new_h
        top    == IF max_top > 0 THEN max_top \div 2 ELSE 0
    IN  [left |-> left, top |-> top, right |-> left + new_w, bottom |-> top + new_h]

BoxW(box) == box.right - box.left
BoxH(box) == box.bottom - box.top

Abs(x) == IF x < 0 THEN -x ELSE x

\* ---------------- defaults of the variables a specification leaves alone
NoImage == [w |-> 0, h |-> 0, f |-> 0, outer |-> 0, inner |-> 0]
NoEnc == [a |-> 0, b |-> 0, t |-> 0]
\* best: Optional[bytes] = None
NoJpg == [q |-> -1, size |-> -1]

Idle ==
    /\ decodable = TRUE
    /\ original_size = 0
    /\ white_ratio = None
    /\ background_ok = None
    /\ window = None
    /\ out_img = None
    /\ jpg = NoJpg
    /\ issues = <<>>
    /\ ok = None
    /\ saved = <<>>
    /\ uploaded = <<>>
    /\ response = None
    /\ trace = <<>>

\* ---------------- the cropper on its own ----------------
InitCrop ==
    /\ endpoint = "passport_crop"
    /\ pc = "start"
    /\ \E w \in 1..MaxW, h \in 1..MaxH :
          pil_img = [w |-> w, h |-> h, f |-> 0, outer |-> 255, inner |-> 255]
    /\ enc = NoEnc
    /\ limit = 0
    /\ Idle

CropOnly ==
    /\ endpoint = "passport_crop"
    /\ pc = "start"
    /\ window' = passport_crop(pil_img.w, pil_img.h)
    /\ pc' = "done"
    /\ trace' = Append(trace, "crop")
    /\ UNCHANGED <<endpoint, decodable, pil_img, original_size, enc, limit,
                   white_ratio, background_ok, out_img, jpg, issues, ok,
                   saved, uploaded, response>>

NextCrop == CropOnly

SpecCrop == InitCrop /\ [][NextCrop]_vars

Cropped == endpoint = "passport_crop" /\ pc = "done"

AtTargetRatio == pil_img.w * TARGET_H = pil_img.h * TARGET_W

NoOpWithinOne ==
    /\ Abs(BoxW(window) - pil_img.w) <= 1
    /\ Abs(BoxH(window) - pil_img.h) <= 1

\* C4 (as stated): a raster already at 240:288 is cropped to itself, each
\* dimension within 1 pixel.
C4_NoOpAtTargetRatio == (Cropped /\ AtTargetRatio) => NoOpWithinOne

\* C4 (amended): a raster at 240:288 whose height is not above
\* TARGET_H * 1.2 is cropped to itself within 1 pixel; a taller one at that
\* ratio is zoomed to 90% of its height, so its crop is smaller by more than
\* 1 pixel.
C4_NoOpUnlessZoomed ==
    (Cropped /\ AtTargetRatio) =>
        (NoOpWithinOne <=> ~(10 * pil_img.h > 12 * TARGET_H))

C4_Witness ==
    /\ Cropped /\ AtTargetRatio
    /\ pil_img.h = TARGET_H + 12
    /\ NoOpWithinOne

\* C5: with w >= 240 or h >= 288 the crop window's width differs from its
\* height * 240 / 288 by less than 1 pixel.
C5_WindowAtTargetRatio ==
    (Cropped /\ (pil_img.w >= TARGET_W \/ pil_img.h >= TARGET_H)) =>
        Abs(TARGET_H * BoxW(window) - TARGET_W * BoxH(window)) < TARGET_H

C5_Witness ==
    /\ Cropped
    /\ pil_img.w >= TARGET_W
    /\ BoxW(window) = pil_img.w
    /\ BoxH(window) < pil_img.h
    /\ BoxH(window) > TARGET_H

\* C6: for every raster the crop window lies inside the raster and is not
\* empty: 0 <= left < right <= w and 0 <= top < bottom <= h.
C6_WindowInsideRaster ==
    Cropped =>
        /\ 0 <= window.left /\ window.left < window.right
        /\ window.right <= pil_img.w
        /\ 0 <= window.top /\ window.top < window.bottom
        /\ window.bottom <= pil_img.h

\* ---------------- jpg_under_size ----------------
\* Image.save(..., quality=q): the encoder is not part of the program; its
\* output size is a two-level function of the quality, a below t and b from
\* t on, monotone or not.  An encoding is identified by its quality.
EncodedSize(e, q) == IF q < e.t THEN e.a ELSE e.b

Encoding(e, q) == [q |-> q, size |-> EncodedSize(e, q)]

KeepsProbing(lo, hi) == lo < hi

\* while lo <= hi
search_continues(lo, hi) == lo <= hi

\* best = buf.getvalue() when the probe fits
record_best(best, probe) == probe

RECURSIVE quality_search(_, _, _, _, _)
quality_search(e, lim, lo, hi, best) ==
    IF search_continues(lo, hi)
    THEN LET q == (lo + hi) \div 2
         IN  IF EncodedSize(e, q) <= lim
             THEN quality_search(e, lim, q + 1, hi, record_best(best, Encoding(e, q)))
             ELSE quality_search(e, lim, lo, q - 1, best)
    ELSE best

jpg_under_size(e, lim) ==
    LET best == quality_search(e, lim, QUALITY_LO, QUALITY_HI, NoJpg)
    IN  IF best # NoJpg THEN best ELSE Encoding(e, QUALITY_LO)

\* ---------------- the encoder on its own ----------------
Profiles(sizes) == [a : sizes, b : sizes, t : QUALITY_LO..(QUALITY_HI + 1)]

InitEnc ==
    /\ endpoint = "jpg_under_size"
    /\ pc = "start"
    /\ pil_img = NoImage
    /\ enc \in Profiles(1..MaxSize)
    /\ limit \in 0..MaxSize
    /\ Idle

EncodeOnly ==
    /\ endpoint = "jpg_under_size"
    /\ pc = "start"
    /\ jpg' = jpg_under_size(enc, limit)
    /\ pc' = "done"
    /\ trace' = Append(trace, "encode")
    /\ UNCHANGED <<endpoint, decodable, pil_img, original_size, enc, limit,
                   white_ratio, background_ok, window, out_img, issues, ok,
                   saved, uploaded, response>>

NextEnc == EncodeOnly

SpecEnc == InitEnc /\ [][NextEnc]_vars

Encoded == endpoint = "jpg_under_size" /\ pc = "done"

Qualities == QUALITY_LO..QUALITY_HI

Monotone(e) ==
    \A q1, q2 \in Qualities : q1 <= q2 => EncodedSize(e, q1) <= EncodedSize(e, q2)

Fitting(e, lim) == {q \in Qualities : EncodedSize(e, q) <= lim}

\* C3: with a size that is non-decreasing in the quality, the result is the
\* encoding at the largest quality in 35..95 that fits the limit, and the
\* encoding at quality 35 (which may exceed the limit) when none fits.
C3_LargestFittingQuality ==
    (Encoded /\ Monotone(enc)) =>
        IF Fitting(enc, limit) = {}
        THEN jpg = Encoding(enc, QUALITY_LO)
        ELSE /\ jpg.q \in Fitting(enc, limit)
             /\ \A q \in Fitting(enc, limit) : q <= jpg.q
             /\ jpg = Encoding(enc, jpg.q)

C3_Witness ==
    /\ Encoded /\ Monotone(enc)
    /\ enc.a < enc.b
    /\ jpg.q > QUALITY_LO /\ jpg.q < QUALITY_HI
    /\ jpg.size <= limit
    /\ EncodedSize(enc, jpg.q + 1) > limit

C3_WitnessNoneFits ==
    /\ Encoded /\ Monotone(enc)
    /\ Fitting(enc, limit) = {}
    /\ jpg.q = QUALITY_LO /\ jpg.size > limit

\* ---------------- rasters ----------------
\* A decoded raster is described by its size and a frame: the pixels nearer
\* than f to an edge have grey level outer, the others inner (R = G = B, so
\* convert("L") yields that level).
FramePixel(r, x, y) ==
    IF Min(Min(x, y), Min(r.w - 1 - x, r.h - 1 - y)) < r.f THEN r.outer ELSE r.inner

\* An image is a view of a raster: Image.crop(box) has the size of the box
\* and reads zero wherever the box leaves the image it is cut from.
PilImage(r) == [w |-> r.w, h |-> r.h, src |-> r, ox |-> 0, oy |-> 0, cut |-> None]

Crop(img, box) ==
    [w |-> BoxW(box), h |-> BoxH(box), src |-> img.src,
     ox |-> img.ox + box.left, oy |-> img.oy + box.top, cut |-> "cut"]

GrayAt(img, x, y) ==
    LET sx == img.ox + x
        sy == img.oy + y
    IN  IF x < 0 \/ x >= img.w \/ y < 0 \/ y >= img.h THEN 0
        ELSE IF sx < 0 \/ sx >= img.src.w \/ sy < 0 \/ sy >= img.src.h THEN 0
        ELSE FramePixel(img.src, sx, sy)

\* ---------------- border_white_ratio ----------------
RECURSIVE GCD(_, _)
GCD(a, b) == IF b = 0 THEN a ELSE GCD(b, a % b)

\* a fraction in lowest terms
Rat(n, d) == LET g == GCD(n, d) IN <<n \div g, d \div g>>

\* b = max(2, min(BORDER_PIXELS, w // 4, h // 4))
border_thickness(w, h) == Max(2, Min(BORDER_PIXELS, Min(w \div 4, h \div 4)))

\* white = sum(1 for v in data_list if v >= WHITE_THRESHOLD) over region.getdata()
count_white(img, box) ==
    Cardinality({p \in (box.left..(box.right - 1)) \X (box.top..(box.bottom - 1)) :
                    GrayAt(img, p[1], p[2]) >= WHITE_THRESHOLD})

\* The four strips hold w*b, w*b, b*h and b*h pixels, so the mean of the four
\* fractions white / total is ((top + bottom) * h + (left + right) * w) over
\* 4 * w * h * b.
border_white_ratio(img) ==
    LET w == img.w
        h == img.h
        b == border_thickness(w, h)
        top    == count_white(img, [left |-> 0, top |-> 0, right |-> w, bottom |-> b])
        bottom == count_white(img, [left |-> 0, top |-> h - b, right |-> w, bottom |-> h])
        left   == count_white(img, [left |-> 0, top |-> 0, right |-> b, bottom |-> h])
        right  == count_white(img, [left |-> w - b, top |-> 0, right |-> w, bottom |-> h])
    IN  Rat((top + bottom) * h + (left + right) * w, 4 * w * h * b)

\* background_ok = white_ratio >= BACKGROUND_MIN_WHITE.  The double 0.56 lies
\* 5e-17 above 56/100 and the double white_ratio within rounding of the
\* exact mean, so a mean of exactly 56/100 may compare either way.
background_ok_outcomes(ratio) ==
    IF ratio[1] * BACKGROUND_MIN_WHITE_DEN = BACKGROUND_MIN_WHITE_NUM * ratio[2]
    THEN BOOLEAN
    ELSE {ratio[1] * BACKGROUND_MIN_WHITE_DEN > BACKGROUND_MIN_WHITE_NUM * ratio[2]}

\* ---------------- the background check on its own ----------------
Lums == {0, WHITE_THRESHOLD - 1, WHITE_THRESHOLD, 255}

Rasters(ws, hs, fs) == [w : ws, h : hs, f : fs, outer : Lums, inner : {0, 255}]

InitBg ==
    /\ endpoint = "border_white_ratio"
    /\ pc = "start"
    /\ pil_img \in Rasters(1..MaxBgDim, 1..MaxBgDim, 0..MaxFrame)
    /\ enc = NoEnc
    /\ limit = 0
    /\ Idle

BackgroundOnly ==
    /\ endpoint = "border_white_ratio"
    /\ pc = "start"
    /\ white_ratio' = border_white_ratio(PilImage(pil_img))
    /\ background_ok' \in background_ok_outcomes(white_ratio')
    /\ pc' = "done"
    /\ trace' = Append(trace, "background")
    /\ UNCHANGED <<endpoint, decodable, pil_img, original_size, enc, limit,
                   window, out_img, jpg, issues, ok, saved, uploaded, response>>

NextBg == BackgroundOnly

SpecBg == InitBg /\ [][NextBg]_vars

Classified == endpoint = "border_white_ratio" /\ pc = "done"

\* the pixels of a raster that lie in its border band
Band(r) ==
    LET b == border_thickness(r.w, r.h)
    IN  {p \in (0..(r.w - 1)) \X (0..(r.h - 1)) :
            p[1] < b \/ p[1] >= r.w - b \/ p[2] < b \/ p[2] >= r.h - b}

BandAllWhite(r) == \A p \in Band(r) : FramePixel(r, p[1], p[2]) >= WHITE_THRESHOLD
BandAllBlack(r) == \A p \in Band(r) : FramePixel(r, p[1], p[2]) = 0

\* C7: a raster of any size whose border band is all white has white
\* fraction exactly 1 and background_ok true; one whose border band is all
\* black has white fraction exactly 0 and background_ok false.
C7_UniformBorder ==
    Classified =>
        /\ BandAllWhite(pil_img) => (white_ratio = <<1, 1>> /\ background_ok = TRUE)
        /\ BandAllBlack(pil_img) => (white_ratio = <<0, 1>> /\ background_ok = FALSE)

\* ---------------- run_pipeline ----------------
CroppedRaster(img) == Crop(img, passport_crop(img.w, img.h))

ClassifiesCrop(img) == CroppedRaster(img)

\* white_ratio = border_white_ratio(pil_img): the raster the classifier reads
classifier_input(img) == img

\* 1) background check
pipeline_background ==
    /\ pc = "background"
    /\ white_ratio' = border_white_ratio(classifier_input(PilImage(pil_img)))
    /\ background_ok' \in background_ok_outcomes(white_ratio')
    /\ issues' = IF background_ok' THEN <<>> ELSE <<"background">>
    /\ pc' = "crop"
    /\ trace' = Append(trace, "background")
    /\ UNCHANGED <<endpoint, decodable, pil_img, original_size, enc, limit,
                   window, out_img, jpg, ok, saved, uploaded, response>>

\* 2) crop to passport style
pipeline_crop ==
    /\ pc = "crop"
    /\ window' = passport_crop(pil_img.w, pil_img.h)
    /\ pc' = "resize"
    /\ trace' = Append(trace, "crop")
    /\ UNCHANGED <<endpoint, decodable, pil_img, original_size, enc, limit,
                   white_ratio, background_ok, out_img, jpg, issues, ok,
                   saved, uploaded, response>>

\* 3) resize to final size
pipeline_resize ==
    /\ pc = "resize"
    /\ out_img' = [w |-> TARGET_W, h |-> TARGET_H]
    /\ pc' = "encode"
    /\ trace' = Append(trace, "resize")
    /\ UNCHANGED <<endpoint, decodable, pil_img, original_size, enc, limit,
                   white_ratio, background_ok, window, jpg, issues, ok,
                   saved, uploaded, response>>

\* 4) compress under limit, and return to the handler
pipeline_encode ==
    /\ pc = "encode"
    /\ jpg' = jpg_under_size(enc, limit)
    /\ pc' = IF endpoint = "validate" THEN "orig_check" ELSE "decide"
    /\ trace' = Append(trace, "encode")
    /\ UNCHANGED <<endpoint, decodable, pil_img, original_size, enc, limit,
                   white_ratio, background_ok, window, out_img, issues, ok,
                   saved, uploaded, response>>

\* ---------------- /validate ----------------
TwoIssueInvalidFile ==
    [ok |-> FALSE, issues |-> <<"invalid_file", "invalid_file">>, bytes |-> 0]

\* the response of both handlers when load_pil raises
invalid_file_response == [ok |-> FALSE, issues |-> <<"invalid_file">>, bytes |-> 0]

validate_decode ==
    /\ endpoint = "validate"
    /\ pc = "recv"
    /\ trace' = Append(trace, "decode")
    /\ IF decodable
       THEN /\ pc' = "background"
            /\ UNCHANGED response
       ELSE /\ pc' = "done"
            /\ response' = invalid_file_response
    /\ UNCHANGED <<endpoint, decodable, pil_img, original_size, enc, limit,
                   white_ratio, background_ok, window, out_img, jpg, issues,
                   ok, saved, uploaded>>

\* Extra check on original size for friendly message
validate_orig_check ==
    /\ endpoint = "validate"
    /\ pc = "orig_check"
    /\ issues' = IF original_size > MAX_ORIGINAL_BYTES
                 THEN <<"original_size">> \o issues
                 ELSE issues
    /\ pc' = "decide"
    /\ UNCHANGED <<endpoint, decodable, pil_img, original_size, enc, limit,
                   white_ratio, background_ok, window, out_img, jpg, ok,
                   saved, uploaded, response, trace>>

OkIgnoresSize(iss, size) == Len(iss) = 0

\* ok = len(issues) == 0 and len(jpg) <= MAX_BYTES
validate_ok(iss, size) == Len(iss) = 0 /\ size <= MAX_BYTES

validate_decide ==
    /\ endpoint = "validate"
    /\ pc = "decide"
    /\ ok' = validate_ok(issues, jpg.size)
    /\ issues' = IF ~ok' /\ issues = <<>> THEN Append(issues, "fallback") ELSE issues
    /\ pc' = "save"
    /\ UNCHANGED <<endpoint, decodable, pil_img, original_size, enc, limit,
                   white_ratio, background_ok, window, out_img, jpg,
                   saved, uploaded, response, trace>>

\* Save locally: the write succeeds
validate_save ==
    /\ endpoint = "validate"
    /\ pc = "save"
    /\ saved' = Append(saved, [bucket |-> IF ok THEN "approved" ELSE "rejected",
                                jpg |-> jpg])
    /\ pc' = "upload"
    /\ trace' = Append(trace, "save")
    /\ UNCHANGED <<endpoint, decodable, pil_img, original_size, enc, limit,
                   white_ratio, background_ok, window, out_img, jpg, issues,
                   ok, uploaded, response>>

\* Save locally: open() or write() raises, the outer handler answers
validate_save_fails ==
    /\ endpoint = "validate"
    /\ pc = "save"
    /\ response' = [ok |-> FALSE, issues |-> <<"internal_error">>, bytes |-> 0]
    /\ pc' = "done"
    /\ trace' = Append(trace, "save_failed")
    /\ UNCHANGED <<endpoint, decodable, pil_img, original_size, enc, limit,
                   white_ratio, background_ok, window, out_img, jpg, issues,
                   ok, saved, uploaded>>

UploadsAlways(approved) == TRUE

\* if ok: supabase_info = upload_to_supabase(jpg, object_path)
uploads(approved) == approved

UploadOutcomes == {"ok", "upload_failed", "supabase_not_configured"}

validate_upload ==
    /\ endpoint = "validate"
    /\ pc = "upload"
    /\ IF uploads(ok)
       THEN /\ \E res \in UploadOutcomes :
                  uploaded' = Append(uploaded, [jpg |-> jpg, result |-> res])
            /\ trace' = Append(trace, "upload")
       ELSE UNCHANGED <<uploaded, trace>>
    /\ pc' = "respond"
    /\ UNCHANGED <<endpoint, decodable, pil_img, original_size, enc, limit,
                   white_ratio, background_ok, window, out_img, jpg, issues,
                   ok, saved, response>>

validate_respond ==
    /\ endpoint = "validate"
    /\ pc = "respond"
    /\ response' = [ok |-> ok, issues |-> issues, width |-> TARGET_W,
                    height |-> TARGET_H, bytes |-> jpg.size,
                    category |-> IF ok THEN "approved" ELSE "rejected",
                    supabase |-> uploaded]
    /\ pc' = "done"
    /\ UNCHANGED <<endpoint, decodable, pil_img, original_size, enc, limit,
                   white_ratio, background_ok, window, out_img, jpg, issues,
                   ok, saved, uploaded, trace>>

\* ---------------- /fix-photo ----------------
fix_photo_decode ==
    /\ endpoint = "fix_photo"
    /\ pc = "recv"
    /\ trace' = Append(trace, "decode")
    /\ IF decodable
       THEN /\ pc' = "background"
            /\ UNCHANGED response
       ELSE /\ pc' = "done"
            /\ response' = invalid_file_response
    /\ UNCHANGED <<endpoint, decodable, pil_img, original_size, enc, limit,
                   white_ratio, background_ok, window, out_img, jpg, issues,
                   ok, saved, uploaded>>

\* ok = len(issues) == 0 and len(jpg) <= MAX_BYTES
fix_photo_ok(iss, size) == Len(iss) = 0 /\ size <= MAX_BYTES

fix_photo_decide ==
    /\ endpoint = "fix_photo"
    /\ pc = "decide"
    /\ ok' = fix_photo_ok(issues, jpg.size)
    /\ pc' = "respond"
    /\ UNCHANGED <<endpoint, decodable, pil_img, original_size, enc, limit,
                   white_ratio, background_ok, window, out_img, jpg, issues,
                   saved, uploaded, response, trace>>

fix_photo_respond ==
    /\ endpoint = "fix_photo"
    /\ pc = "respond"
    /\ response' = [ok |-> ok, issues |-> issues, width |-> TARGET_W,
                    height |-> TARGET_H, bytes |-> jpg.size]
    /\ pc' = "done"
    /\ UNCHANGED <<endpoint, decodable, pil_img, original_size, enc, limit,
                   white_ratio, background_ok, window, out_img, jpg, issues,
                   ok, saved, uploaded, trace>>

\* ---------------- one request to either handler ----------------
ApiSizes == (MAX_BYTES - SizeSpread)..(MAX_BYTES + SizeSpread)

ApiProfiles ==
    [a : ApiSizes, b : ApiSizes,
     t : {QUALITY_LO, (QUALITY_LO + QUALITY_HI) \div 2, QUALITY_HI + 1}]

ApiDims == {<<1, 1>>, <<10, 100>>, <<60, 72>>, <<250, 346>>}

ApiRasters ==
    {[w |-> d[1], h |-> d[2], f |-> f, outer |-> o, inner |-> i] :
        d \in ApiDims, f \in {0, 1}, o \in {0, 255}, i \in {0, 255}}

InitApi ==
    /\ endpoint \in {"validate", "fix_photo"}
    /\ pc = "recv"
    /\ original_size \in ApiSizes
    /\ limit = MAX_BYTES
    /\ \/ /\ decodable = TRUE
          /\ pil_img \in ApiRasters
          /\ enc \in ApiProfiles
       \/ /\ decodable = FALSE
          /\ pil_img = NoImage
          /\ enc = NoEnc
    /\ white_ratio = None
    /\ background_ok = None
    /\ window = None
    /\ out_img = None
    /\ jpg = NoJpg
    /\ issues = <<>>
    /\ ok = None
    /\ saved = <<>>
    /\ uploaded = <<>>
    /\ response = None
    /\ trace = <<>>

NextApi ==
    \/ validate_decode
    \/ fix_photo_decode
    \/ pipeline_background
    \/ pipeline_crop
    \/ pipeline_resize
    \/ pipeline_encode
    \/ validate_orig_check
    \/ validate_decide
    \/ validate_save
    \/ validate_save_fails
    \/ validate_upload
    \/ validate_respond
    \/ fix_photo_decide
    \/ fix_photo_respond

SpecApi == InitApi /\ [][NextApi]_vars

Answered == pc = "done"
Handlers == endpoint \in {"validate", "fix_photo"}

\* C1: after a successful decode, the response's ok is true exactly when its
\* issue list is empty and its byte count is within MAX_BYTES.
C1_ApprovedIffCleanAndWithinBudget ==
    (Handlers /\ Answered /\ decodable) =>
        (response.ok <=> (response.issues = <<>> /\ response.bytes <= MAX_BYTES))

C1_Witness ==
    /\ Handlers /\ Answered /\ decodable
    /\ response.ok = TRUE
    /\ response.bytes = MAX_BYTES
    /\ enc.b > MAX_BYTES

\* C2: a response with ok = false always carries at least one issue.
C2_RejectionExplained ==
    (Handlers /\ Answered /\ response.ok = FALSE) => Len(response.issues) >= 1

Before(first, second) ==
    \A i, j \in 1..Len(trace) : (trace[i] = first /\ trace[j] = second) => i < j

Took(step) == \E i \in 1..Len(trace) : trace[i] = step

ValidateOrder ==
    /\ Before("decode", "background")
    /\ Before("encode", "save")
    /\ Before("encode", "save_failed")
    /\ Before("save", "upload")
    /\ (Took("save") \/ Took("save_failed")) => (Took("decode") /\ Took("encode"))
    /\ Took("upload") => Took("save")

NeverPersists == saved = <<>> /\ uploaded = <<>>

\* C8 (as stated): /validate decodes, runs the pipeline, then persists, and
\* writes or uploads the photo only if approved; /fix-photo never writes or
\* uploads.
C8_PersistsOnlyIfApproved ==
    /\ endpoint = "validate" =>
          /\ ValidateOrder
          /\ (saved # <<>> \/ uploaded # <<>>) => ok = TRUE
    /\ endpoint = "fix_photo" => NeverPersists

\* C8 (amended): /validate decodes, runs the pipeline, then persists; it
\* writes the photo to local storage whether approved or not (to the
\* approved bucket exactly when approved, else to the rejected one) and
\* uploads it only if approved; /fix-photo never writes or uploads.
C8_UploadsOnlyIfApproved ==
    /\ endpoint = "validate" =>
          /\ ValidateOrder
          /\ pc \in {"upload", "respond"} => saved # <<>>
          /\ saved # <<>> =>
                /\ Len(saved) = 1
                /\ saved[1].jpg = jpg
                /\ saved[1].bucket = (IF ok THEN "approved" ELSE "rejected")
          /\ uploaded # <<>> => (ok = TRUE /\ Len(uploaded) = 1 /\ uploaded[1].jpg = jpg)
    /\ endpoint = "fix_photo" => NeverPersists

C8_Witness ==
    /\ endpoint = "validate" /\ Answered
    /\ response.ok = FALSE
    /\ saved # <<>> /\ saved[1].bucket = "rejected"
    /\ uploaded = <<>>

C8_WitnessUploaded ==
    /\ endpoint = "validate" /\ Answered
    /\ response.ok = TRUE
    /\ saved # <<>> /\ uploaded # <<>>

\* C9: bytes that do not decode are answered with ok = false, the single
\* issue "invalid file" and bytes = 0, and nothing else runs: no background
\* check, crop, encoding, file write or upload.
C9_UndecodableRejectedEarly ==
    (Handlers /\ ~decodable) =>
        /\ pc \in {"recv", "done"}
        /\ window = None /\ jpg = NoJpg /\ NeverPersists
        /\ Answered =>
              /\ response.ok = FALSE
              /\ response.issues = <<"invalid_file">>
              /\ response.bytes = 0
              /\ trace = <<"decode">>

C9_Witness ==
    /\ endpoint = "validate" /\ ~decodable /\ Answered
    /\ Len(response.issues) = 1

PipelineReturned == Handlers /\ pc = "decide"

\* C10 (as stated): the classifier runs between the cropper and the encoder
\* on the cropped raster, so the white fraction and background_ok are those
\* of the border band of passport_crop's output.
C10_ClassifierReadsCrop ==
    PipelineReturned =>
        /\ white_ratio = border_white_ratio(CroppedRaster(PilImage(pil_img)))
        /\ background_ok \in background_ok_outcomes(white_ratio)
        /\ trace = <<"decode", "crop", "background", "resize", "encode">>

\* C10 (amended): the classifier runs before the cropper and the encoder, on
\* the uncropped input raster, so the white fraction and background_ok are
\* those of the border band of passport_crop's input and pixels outside the
\* crop window do affect background acceptance.
C10_ClassifierReadsInput ==
    PipelineReturned =>
        /\ white_ratio = border_white_ratio(PilImage(pil_img))
        /\ background_ok \in background_ok_outcomes(white_ratio)
        /\ trace = <<"decode", "background", "crop", "resize", "encode">>

C10_Witness ==
    /\ PipelineReturned
    /\ background_ok = FALSE
    /\ background_ok_outcomes(border_white_ratio(CroppedRaster(PilImage(pil_img)))) = {TRUE}

====
